---- MODULE Spec2Model ----
(***************************************************************************)
(* Veo3 Analyzer: the App component's session state (src/App.tsx), the     *)
(* analysis client (src/services/geminiService.ts) and the pure helpers    *)
(* they use (JSON text, prompt synthesis, scene location, time format).    *)
(*                                                                         *)
(* A JSON text is a sequence of lexical tokens. Punctuation, blanks,       *)
(* newlines and digits are one character each; a string literal is one     *)
(* token that stands for its characters and its two quotes (the strings    *)
(* of the model hold no quote and no backslash, so no literal needs an     *)
(* escape).                                                                *)
(***************************************************************************)
EXTENDS Integers, Sequences, FiniteSets, TLC

(***************************************************************************)
(* Lexical tokens                                                          *)
(***************************************************************************)
P(c) == [k |-> "punct", s |-> c]
W(c) == [k |-> "ws", s |-> c]
D(c) == [k |-> "digit", s |-> c]
S(str) == [k |-> "str", s |-> str]
Bad(str) == [k |-> "bad", s |-> str]

SP == W(" ")
NL == W("\n")

EmptyText == << >>

DigitChars == <<"0", "1", "2", "3", "4", "5", "6", "7", "8", "9">>

DigitValue(c) == CHOOSE d \in 0..9 : DigitChars[d + 1] = c

\* Number of characters a token stands for.
TokenLen(tok) == IF tok.k = "str" THEN Len(tok.s) + 2 ELSE Len(tok.s)

\* The length of a text in characters (summed by halves).
RECURSIVE CharLen(_)
CharLen(text) ==
  IF Len(text) = 0 THEN 0
  ELSE IF Len(text) = 1 THEN TokenLen(text[1])
  ELSE LET h == Len(text) \div 2
       IN CharLen(SubSeq(text, 1, h)) + CharLen(SubSeq(text, h + 1, Len(text)))

\* Character offset (0-based, as String.prototype.indexOf counts) of the
\* token at 1-based position i of text.
CharOffset(text, i) == CharLen(SubSeq(text, 1, i - 1))

(***************************************************************************)
(* JSON values: what JSON.parse returns and JSON.stringify takes.          *)
(* An object is the ordered sequence of its <<key, value>> members.        *)
(***************************************************************************)
\* A number: its integer part v and the digits f after the decimal point
\* (none for an integer, no trailing zero). The numbers are non-negative.
Frac(whole, digits) == [t |-> "num", v |-> whole, f |-> digits]
Num(n) == Frac(n, << >>)
Str(s) == [t |-> "str", v |-> s]
Arr(elems) == [t |-> "arr", v |-> elems]
Obj(members) == [t |-> "obj", v |-> members]
Undefined == [t |-> "undefined", v |-> 0]

RECURSIVE Digits(_)
Digits(n) ==
  IF n < 10 THEN << D(DigitChars[n + 1]) >>
  ELSE Digits(n \div 10) \o << D(DigitChars[(n % 10) + 1]) >>

\* The decimal text of a number, as JSON.stringify and `${n}` write it.
NumberText(val) ==
  Digits(val.v)
  \o (IF val.f = << >> THEN << >>
      ELSE << P(".") >> \o [i \in 1..Len(val.f) |-> D(DigitChars[val.f[i] + 1])])

RECURSIVE Spaces(_)
Spaces(n) == IF n = 0 THEN << >> ELSE << SP >> \o Spaces(n - 1)

\* JSON.stringify(value, null, gap): gap = 0 is the compact form, gap = 2 the
\* pretty-printed one. ind is the current indentation.
RECURSIVE Stringify(_, _, _), StringifyItems(_, _, _, _)
Stringify(val, gap, ind) ==
  CASE val.t = "num" -> NumberText(val)
    [] val.t = "str" -> << S(val.v) >>
    [] val.t = "arr" ->
         IF val.v = << >> THEN << P("["), P("]") >>
         ELSE << P("[") >> \o StringifyItems(val, gap, ind + gap, 1)
              \o (IF gap > 0 THEN << NL >> \o Spaces(ind) ELSE << >>)
              \o << P("]") >>
    [] val.t = "obj" ->
         IF val.v = << >> THEN << P("{"), P("}") >>
         ELSE << P("{") >> \o StringifyItems(val, gap, ind + gap, 1)
              \o (IF gap > 0 THEN << NL >> \o Spaces(ind) ELSE << >>)
              \o << P("}") >>

StringifyItems(val, gap, ind, i) ==
  IF i > Len(val.v) THEN << >>
  ELSE (IF i > 1 THEN << P(",") >> ELSE << >>)
       \o (IF gap > 0 THEN << NL >> \o Spaces(ind) ELSE << >>)
       \o (IF val.t = "obj"
           THEN << S(val.v[i][1]), P(":") >>
                \o (IF gap > 0 THEN << SP >> ELSE << >>)
                \o Stringify(val.v[i][2], gap, ind)
           ELSE Stringify(val.v[i], gap, ind))
       \o StringifyItems(val, gap, ind, i + 1)

Pretty(val) == Stringify(val, 2, 0)
Compact(val) == Stringify(val, 0, 0)

(***************************************************************************)
(* JSON.parse: a recursive-descent parser over the tokens.                 *)
(***************************************************************************)
ParseFail == [ok |-> FALSE, val |-> Undefined, next |-> 0]
ParseOk(val, next) == [ok |-> TRUE, val |-> val, next |-> next]

RECURSIVE SkipWs(_, _)
SkipWs(text, i) ==
  IF i <= Len(text) /\ text[i].k = "ws" THEN SkipWs(text, i + 1) ELSE i

IsTok(text, i, tok) == i <= Len(text) /\ text[i] = tok

\* A later member with the same key replaces the value of the earlier one and
\* keeps its place, as property assignment does.
RECURSIVE SetMember(_, _, _)
SetMember(members, key, val) ==
  IF members = << >> THEN << <<key, val>> >>
  ELSE IF Head(members)[1] = key THEN << <<key, val>> >> \o Tail(members)
  ELSE << Head(members) >> \o SetMember(Tail(members), key, val)

\* The digits after the decimal point, from position i on.
RECURSIVE ParseFraction(_, _, _)
ParseFraction(text, i, acc) ==
  IF i <= Len(text) /\ text[i].k = "digit"
  THEN ParseFraction(text, i + 1, Append(acc, DigitValue(text[i].s)))
  ELSE [digits |-> acc, next |-> i]

\* 1.50 and 1.5 are the same number.
RECURSIVE StripZeros(_)
StripZeros(digits) ==
  IF digits # << >> /\ digits[Len(digits)] = 0
  THEN StripZeros(SubSeq(digits, 1, Len(digits) - 1))
  ELSE digits

RECURSIVE ParseNumber(_, _, _)
ParseNumber(text, i, acc) ==
  IF i <= Len(text) /\ text[i].k = "digit"
  THEN ParseNumber(text, i + 1, 10 * acc + DigitValue(text[i].s))
  ELSE IF IsTok(text, i, P("."))
  THEN LET fr == ParseFraction(text, i + 1, << >>) IN
       IF fr.digits = << >> THEN ParseFail
       ELSE ParseOk(Frac(acc, StripZeros(fr.digits)), fr.next)
  ELSE ParseOk(Num(acc), i)

RECURSIVE ParseValue(_, _), ParseElements(_, _, _), ParseMembers(_, _, _)
ParseValue(text, i) ==
  LET j == SkipWs(text, i) IN
  IF j > Len(text) THEN ParseFail
  ELSE LET tok == text[j] IN
    CASE tok.k = "str" -> ParseOk(Str(tok.s), j + 1)
      [] tok.k = "digit" ->
           \* no leading zero
           IF tok.s = "0" /\ j + 1 <= Len(text) /\ text[j + 1].k = "digit"
           THEN ParseFail
           ELSE ParseNumber(text, j, 0)
      [] tok = P("[") ->
           LET m == SkipWs(text, j + 1) IN
           IF IsTok(text, m, P("]")) THEN ParseOk(Arr(<< >>), m + 1)
           ELSE ParseElements(text, m, << >>)
      [] tok = P("{") ->
           LET m == SkipWs(text, j + 1) IN
           IF IsTok(text, m, P("}")) THEN ParseOk(Obj(<< >>), m + 1)
           ELSE ParseMembers(text, m, << >>)
      [] OTHER -> ParseFail

ParseElements(text, i, acc) ==
  LET r == ParseValue(text, i) IN
  IF ~r.ok THEN ParseFail
  ELSE LET m == SkipWs(text, r.next) IN
    IF IsTok(text, m, P(",")) THEN ParseElements(text, m + 1, Append(acc, r.val))
    ELSE IF IsTok(text, m, P("]")) THEN ParseOk(Arr(Append(acc, r.val)), m + 1)
    ELSE ParseFail

ParseMembers(text, i, acc) ==
  LET j == SkipWs(text, i) IN
  IF ~(j <= Len(text) /\ text[j].k = "str") THEN ParseFail
  ELSE LET c == SkipWs(text, j + 1) IN
    IF ~IsTok(text, c, P(":")) THEN ParseFail
    ELSE LET r == ParseValue(text, c + 1) IN
      IF ~r.ok THEN ParseFail
      ELSE LET m == SkipWs(text, r.next)
               members == SetMember(acc, text[j].s, r.val) IN
        IF IsTok(text, m, P(",")) THEN ParseMembers(text, m + 1, members)
        ELSE IF IsTok(text, m, P("}")) THEN ParseOk(Obj(members), m + 1)
        ELSE ParseFail

\* JSON.parse(text): ok is FALSE where JSON.parse throws a SyntaxError.
JsonParse(text) ==
  LET r == ParseValue(text, 1) IN
  IF r.ok /\ SkipWs(text, r.next) > Len(text) THEN r ELSE ParseFail

(***************************************************************************)
(* JavaScript property access and string conversion on parsed values.      *)
(***************************************************************************)
Null == [t |-> "null", v |-> 0]

HasMember(val, key) ==
  val.t = "obj" /\ \E i \in 1..Len(val.v) : val.v[i][1] = key

\* val[key]: undefined when val is no object or has no such member.
GetField(val, key) ==
  IF HasMember(val, key)
  THEN val.v[CHOOSE i \in 1..Len(val.v) : val.v[i][1] = key][2]
  ELSE Undefined

IsArray(val) == val.t = "arr"

\* `${val}` and the element conversion of Array.prototype.join.
RECURSIVE FractionStr(_, _)
FractionStr(digits, i) ==
  IF i > Len(digits) THEN "" ELSE ToString(digits[i]) \o FractionStr(digits, i + 1)

RECURSIVE TemplateStr(_), JoinFrom(_, _, _)
TemplateStr(val) ==
  CASE val.t = "str" -> val.v
    [] val.t = "num" ->
         ToString(val.v) \o (IF val.f = << >> THEN "" ELSE "." \o FractionStr(val.f, 1))
    [] val.t = "arr" -> JoinFrom(val.v, ",", 1)
    [] val.t = "obj" -> "[object Object]"
    [] OTHER -> val.t

\* elems.join(sep) from element i on; null and undefined elements give "".
JoinFrom(elems, sep, i) ==
  IF i > Len(elems) THEN ""
  ELSE (IF i > 1 THEN sep ELSE "")
       \o (IF elems[i].t \in {"undefined", "null"} THEN "" ELSE TemplateStr(elems[i]))
       \o JoinFrom(elems, sep, i + 1)

Join(arr, sep) == JoinFrom(arr.v, sep, 1)

\* Math.floor of a non-negative number.
Floor(num) == num.v

\* Mutant: the seconds are written without padding.
padStartNone(str) == str

padStart2(str) == IF Len(str) < 2 THEN "0" \o str ELSE str

\* formatTime(seconds) of a parsed value; a value that is no number gives NaN.
formatTime(seconds) ==
  IF seconds.t # "num" THEN "NaN:NaN"
  ELSE LET floorSeconds == Floor(seconds)
           m == floorSeconds \div 60
           s == floorSeconds % 60
       IN ToString(m) \o ":" \o padStart2(ToString(s))

(***************************************************************************)
(* Prompt synthesis: the body of the effect on jsonOutput.                 *)
(***************************************************************************)
\* Mutant: an empty dialogue array counts as dialogue.
HasDialogueIfArray(scene) == GetField(scene, "dialogue").t = "arr"

\* scene.dialogue && scene.dialogue.length > 0
HasDialogue(scene) ==
  LET d == GetField(scene, "dialogue") IN
  CASE d.t = "arr" -> Len(d.v) > 0
    [] d.t = "str" -> Len(d.v) > 0
    [] d.t = "obj" -> GetField(d, "length").t = "num" /\ GetField(d, "length").v > 0
    [] OTHER -> FALSE

\* The map callback throws a TypeError: join or map called on what is no array.
SceneThrows(scene) ==
  \/ ~IsArray(GetField(scene, "objects"))
  \/ ~IsArray(GetField(scene, "actions"))
  \/ HasDialogue(scene) /\ ~IsArray(GetField(scene, "dialogue"))

RECURSIVE DialogueFrom(_, _)
DialogueFrom(lines, i) ==
  IF i > Len(lines) THEN ""
  ELSE (IF i > 1 THEN " " ELSE "")
       \o TemplateStr(GetField(lines[i], "speaker")) \o ": \""
       \o TemplateStr(GetField(lines[i], "line")) \o "\""
       \o DialogueFrom(lines, i + 1)

PromptText(scene) ==
  "Cinematic shot: " \o TemplateStr(GetField(scene, "description")) \o "."
  \o (IF HasDialogue(scene)
      THEN " Dialogue: " \o DialogueFrom(GetField(scene, "dialogue").v, 1) \o "."
      ELSE "")
  \o " Prominent objects: " \o Join(GetField(scene, "objects"), ", ")
  \o ". Actions: " \o Join(GetField(scene, "actions"), ", ") \o "."

ShotPromptOf(scene) ==
  [id |-> GetField(scene, "scene_id"),
   timestamp |-> formatTime(GetField(scene, "timestamp_start_seconds")) \o " - "
                 \o formatTime(GetField(scene, "timestamp_end_seconds")),
   prompt |-> PromptText(scene),
   scene |-> scene]

\* Mutant: the prompts come out last scene first.
SynthesizeReversed(analysis) ==
  LET scenes == GetField(analysis, "scenes") IN
  IF ~IsArray(scenes) \/ \E i \in 1..Len(scenes.v) : SceneThrows(scenes.v[i])
  THEN [ok |-> FALSE, prompts |-> << >>]
  ELSE [ok |-> TRUE,
        prompts |-> [i \in 1..Len(scenes.v) |->
                       ShotPromptOf(scenes.v[Len(scenes.v) + 1 - i])]]

\* analysis.scenes.map(...): ok is FALSE where the try block throws.
Synthesize(analysis) ==
  LET scenes == GetField(analysis, "scenes") IN
  IF ~IsArray(scenes) \/ \E i \in 1..Len(scenes.v) : SceneThrows(scenes.v[i])
  THEN [ok |-> FALSE, prompts |-> << >>]
  ELSE [ok |-> TRUE, prompts |-> [i \in 1..Len(scenes.v) |-> ShotPromptOf(scenes.v[i])]]

\* What the effect on jsonOutput computes from a text: the prompt list it
\* sets, and whether it reaches setActiveTab('prompts').
DerivePrompts(text) ==
  IF text = EmptyText THEN [ok |-> FALSE, prompts |-> << >>]
  ELSE LET r == JsonParse(text) IN
    IF ~r.ok THEN [ok |-> FALSE, prompts |-> << >>] ELSE Synthesize(r.val)

(***************************************************************************)
(* Scene location: the search of handleShotPromptClick.                    *)
(***************************************************************************)
\* `"scene_id": ${id}` as tokens.
SceneIdentifier(id) ==
  << S("scene_id"), P(":"), SP >>
  \o (IF id.t = "num" THEN NumberText(id) ELSE << Bad(TemplateStr(id)) >>)

\* text.indexOf(pat, from) over token positions (1-based); 0 stands for -1.
MatchesAt(text, pat, i) ==
  i + Len(pat) - 1 <= Len(text) /\ SubSeq(text, i, i + Len(pat) - 1) = pat

IndexOf(text, pat, from) ==
  IF \E i \in from..Len(text) : MatchesAt(text, pat, i)
  THEN CHOOSE i \in from..Len(text) :
         MatchesAt(text, pat, i) /\ \A j \in from..(i - 1) : ~MatchesAt(text, pat, j)
  ELSE 0

NoSpan == [found |-> FALSE, start |-> 0, end |-> 0]

\* The span (startIndex, finalEndIndex), in characters.
Locate(text, id) ==
  LET startPos == IndexOf(text, SceneIdentifier(id), 1) IN
  IF startPos = 0 THEN NoSpan
  ELSE LET endPos == IndexOf(text, << NL >>, startPos) IN
    [found |-> TRUE,
     start |-> CharOffset(text, startPos),
     end |-> IF endPos = 0 THEN CharLen(text) ELSE CharOffset(text, endPos)]

(***************************************************************************)
(* The analysis client's result from the remote response text.             *)
(***************************************************************************)
\* JSON.stringify(JSON.parse(jsonText), null, 2), or the raw text where the
\* parse throws.
ClientResult(jsonText) ==
  LET r == JsonParse(jsonText) IN IF r.ok THEN Pretty(r.val) ELSE jsonText

(***************************************************************************)
(* Inputs: files, analyses, texts, failures.                               *)
(***************************************************************************)
\* A File: its name and its MIME type as <<type, subtype>>.
NoFile == [name |-> "", type |-> <<"", "">>]
Mp4File == [name |-> "clip.mp4", type |-> <<"video", "mp4">>]
TextFile == [name |-> "notes.txt", type |-> <<"text", "plain">>]
Files == {Mp4File, TextFile}

\* Mutant: the MIME check accepts every file.
IsVideoAnyType(file) == TRUE

\* file.type.startsWith('video/')
IsVideo(file) == file.type[1] = "video"

StrArr(strs) == Arr([i \in 1..Len(strs) |-> Str(strs[i])])

DialogueLine(speaker, line) ==
  Obj(<< <<"speaker", Str(speaker)>>, <<"line", Str(line)>> >>)

Scene(id, start, end, description, objects, actions) ==
  Obj(<< <<"scene_id", Num(id)>>,
         <<"timestamp_start_seconds", Num(start)>>,
         <<"timestamp_end_seconds", Num(end)>>,
         <<"description", Str(description)>>,
         <<"objects", StrArr(objects)>>,
         <<"actions", StrArr(actions)>> >>)

WithDialogue(scene, lines) == Obj(scene.v \o << <<"dialogue", Arr(lines)>> >>)

VideoAnalysis(title, summary, scenes) ==
  Obj(<< <<"title", Str(title)>>, <<"summary", Str(summary)>>,
         <<"scenes", Arr(scenes)>> >>)

SceneA1 ==
  WithDialogue(Scene(1, 0, 8, "A cat sits", <<"cat", "sofa">>, <<"sit">>),
               << DialogueLine("Person 1", "Hello") >>)
SceneA2 == Scene(2, 8, 10, "It leaves", << >>, << >>)
AnalysisA == VideoAnalysis("Clip", "Two shots", << SceneA1, SceneA2 >>)

SceneB10 == Scene(10, 65, 70, "A dog runs", <<"dog">>, <<"run", "bark">>)
SceneB1 == Scene(1, 70, 75, "It rests", <<"dog">>, <<"rest">>)
AnalysisB == VideoAnalysis("Park", "A dog", << SceneB10, SceneB1 >>)

Scenes == {SceneA1, SceneA2, SceneB10, SceneB1}
\* The scenes a caller of the core hands to handleShotPromptClick.
CoreScenes == {SceneA2, SceneB1}

\* Text that is no JSON.
Garbage == << Bad("Sorry"), SP, Bad("I"), SP, Bad("cannot") >>
\* JSON that is no VideoAnalysis.
EmptyObject == << P("{"), P("}") >>

\* response.text of the remote model (absent or empty text is EmptyText).
RemoteTexts ==
  {EmptyText, Garbage, EmptyObject, Compact(AnalysisA), Pretty(AnalysisB)}

\* What the user can leave in the textarea.
EditTexts ==
  {EmptyText, Garbage, Compact(AnalysisA), Pretty(AnalysisA), Pretty(AnalysisB)}

\* What a rejected promise carries: an Error with its message, or a value
\* that is no Error (the ProgressEvent of reader.onerror).
ErrorOf(message) == [isError |-> TRUE, message |-> message]
NotAnError == [isError |-> FALSE, message |-> ""]

RemoteFailures == {ErrorOf("rate limited")}
EncodingFailures == {ErrorOf("Failed to convert file to base64."), NotAnError}

InvalidFileMessage == "Please upload a valid video file."
UnknownErrorMessage == "An unknown error occurred during analysis."
ApiKeyMessage == "API_KEY environment variable not set."
PreparingMessage == "Preparing video for analysis..."
UploadingMessage == "Uploading and analyzing with Gemini AI... This may take a moment."

\* Mutant: the catch block shows the generic message for every failure.
CaughtMessageGeneric(err) == UnknownErrorMessage

\* err instanceof Error ? err.message : '...'
CaughtMessage(err) == IF err.isError THEN err.message ELSE UnknownErrorMessage

(***************************************************************************)
(* The texts jsonOutput can hold, and the pure functions tabulated over    *)
(* them (each table is evaluated once).                                    *)
(***************************************************************************)
\* Mutant: the export writes the scenes array in place of the document.
FormatResultOfScenes(text) ==
  LET r == JsonParse(text) IN
  IF r.ok /\ IsArray(GetField(r.val, "scenes"))
  THEN Pretty(GetField(r.val, "scenes")) ELSE text

\* handleFormatJson's text: JSON.stringify(JSON.parse(text), null, 2); where
\* the parse throws, the text stays.
FormatResult(text) ==
  LET r == JsonParse(text) IN IF r.ok THEN Pretty(r.val) ELSE text

Texts ==
  LET base == EditTexts \cup {ClientResult(t) : t \in RemoteTexts}
  IN base \cup {FormatResult(t) : t \in base}

SceneIds == {GetField(scene, "scene_id") : scene \in Scenes}

ClientResults == [t \in RemoteTexts |-> ClientResult(t)]
Formatted == [t \in Texts |-> FormatResult(t)]
Parses == [t \in Texts |-> JsonParse(t).ok]
Derived == [t \in Texts |-> DerivePrompts(t)]
Located == [t \in Texts |-> [id \in SceneIds |-> Locate(t, id)]]

(***************************************************************************)
(* Bounds                                                                  *)
(***************************************************************************)
\* Object URLs the browser can hand out at once.
MaxUrls == 3
\* Calls of handleFileUpload that can be suspended at once.
MaxCalls == 2
\* Scenes of an analysis handed to a helper directly.
MaxScenes == 3
\* Whole seconds of a time handed to formatTime directly.
MaxSeconds == 700

(***************************************************************************)
(* State                                                                   *)
(***************************************************************************)
VARIABLES
  mounted,          \* the App component is mounted
  apiKey,           \* process.env.API_KEY is set
  videoFile,        \* useState: File | null (NoFile)
  videoUrl,         \* useState: object URL | null (NoUrl)
  jsonOutput,       \* useState: the JSON text
  isLoading,        \* useState
  error,            \* useState: message | null (NoError: what is falsy)
  progressMessage,  \* useState
  shotPrompts,      \* useState
  activeTab,        \* useState: "prompts" | "json"
  selectedSceneId,  \* useState: scene_id | null
  selection,        \* the textarea's selection range set by setSelectionRange
  liveUrls,         \* object URLs created and not yet revoked
  calls,            \* suspended calls of handleFileUpload, by where they wait
  clientProgress,   \* history: the client's setProgress calls since the last
                    \* analysis began, each by when the client made it
  lastOp,           \* history: the last operation, its input and where it began
  probe             \* the last direct call of a pure helper: input and output

vars ==
  <<mounted, apiKey, videoFile, videoUrl, jsonOutput, isLoading, error,
    progressMessage, shotPrompts, activeTab, selectedSceneId, selection,
    liveUrls, calls, clientProgress, lastOp, probe>>

\* All but probe.
sessionVars ==
  <<mounted, apiKey, videoFile, videoUrl, jsonOutput, isLoading, error,
    progressMessage, shotPrompts, activeTab, selectedSceneId, selection,
    liveUrls, calls, clientProgress, lastOp>>

\* The useState values of App.
appState ==
  <<videoFile, videoUrl, jsonOutput, isLoading, error, progressMessage,
    shotPrompts, activeTab, selectedSceneId>>

NoUrl == 0
NoError == ""
NoSelection == <<-1, -1>>

Urls == 1..MaxUrls

\* The calls of handleFileUpload that are suspended, counted by what they
\* await: the calls differ in nothing else that they use after the await.
NoCalls == [nokey |-> 0, encoding |-> 0, requesting |-> 0]
InFlight == calls.nokey + calls.encoding + calls.requesting

\* A call that threw for the missing API_KEY awaits nothing: the rest of
\* handleFileUpload is a queued microtask, which runs before any other handler
\* or completion does.
KeyRejectionQueued == calls.nokey > 0

NoProbe == [fn |-> "none", text |-> EmptyText, arg |-> Null, out |-> Null]

(***************************************************************************)
(* What App renders (lines 296-320, 382-412).                              *)
(***************************************************************************)
ShowsUploadArea == mounted /\ videoFile = NoFile /\ ~isLoading
ShowsSpinner == mounted /\ isLoading
ShowsErrorPanel == mounted /\ error # NoError
ShowsResultPanel == mounted /\ ~isLoading /\ jsonOutput # EmptyText
ShowsShotCards == ShowsResultPanel /\ activeTab = "prompts"
\* jsonTextareaRef.current is the textarea exactly while it is rendered.
TextareaMounted == ShowsResultPanel /\ activeTab = "json"

\* The session state of the state machine, read off the useState values.
SessionState ==
  CASE ~mounted -> "Unmounted"
    [] isLoading -> "Analyzing"
    [] error # NoError -> "Error"
    [] jsonOutput # EmptyText -> "Ready"
    [] videoFile = NoFile -> "Idle"
    [] OTHER -> "Blank"

Idle == SessionState = "Idle"
Analyzing == SessionState = "Analyzing"
Ready == SessionState = "Ready"
Error == SessionState = "Error"

Op(name, file, text, id, msg) ==
  [op |-> name, from |-> SessionState, file |-> file, text |-> text,
   id |-> id, msg |-> msg]

Init ==
  /\ mounted = TRUE
  /\ apiKey \in BOOLEAN
  /\ videoFile = NoFile
  /\ videoUrl = NoUrl
  /\ jsonOutput = EmptyText
  /\ isLoading = FALSE
  /\ error = NoError
  /\ progressMessage = ""
  /\ shotPrompts = << >>
  /\ activeTab = "prompts"
  /\ selectedSceneId = Null
  /\ selection = NoSelection
  /\ liveUrls = {}
  /\ calls = NoCalls
  /\ clientProgress = << >>
  /\ probe = NoProbe
  /\ lastOp = [op |-> "mount", from |-> "Idle", file |-> NoFile,
               text |-> EmptyText, id |-> Null, msg |-> ""]

(***************************************************************************)
(* The effects, run with the render that follows each handler.             *)
(***************************************************************************)
\* Mutant: the catch block and the else branch leave the list as it was.
PromptsAfterKeptOnFailure(newJson, prompts) ==
  IF newJson # jsonOutput /\ Derived[newJson].ok THEN Derived[newJson].prompts
  ELSE prompts

\* useEffect on jsonOutput (lines 257-285) runs when the text changed: what it
\* leaves in shotPrompts and activeTab, given what the handler left there.
PromptsAfter(newJson, prompts) ==
  IF newJson # jsonOutput THEN Derived[newJson].prompts ELSE prompts

TabAfter(newJson, tab) ==
  IF newJson # jsonOutput /\ Derived[newJson].ok THEN "prompts" ELSE tab

\* Mutant: the effect has no cleanup.
LiveAfterNoCleanup(newUrl, live) == live

\* useEffect cleanup on videoUrl (lines 221-227): when the URL changed, the
\* cleanup of the previous render revokes the previous URL.
LiveAfter(newUrl, live) ==
  IF newUrl # videoUrl /\ videoUrl # NoUrl THEN live \ {videoUrl} ELSE live

\* The textarea keeps a selection only while it stays rendered with the same
\* value. Conjoined last: it reads the other variables' next values.
SelectionAfter(sel) ==
  selection' = IF TextareaMounted' /\ jsonOutput' = jsonOutput THEN sel
               ELSE NoSelection

(***************************************************************************)
(* Handlers                                                                *)
(***************************************************************************)
\* URL.createObjectURL returns a URL that is not in use.
FreshUrl ==
  CHOOSE u \in Urls :
    /\ u \notin liveUrls \cup {videoUrl}
    /\ \A w \in Urls : w \notin liveUrls \cup {videoUrl} => u <= w

\* Mutant: the client does not check API_KEY.
FirstPhaseNoKeyCheck == "encoding"

\* analyzeVideoWithGemini up to its first suspension: without API_KEY it is
\* already rejected, otherwise it awaits fileToBase64.
FirstPhase == IF apiKey THEN "encoding" ELSE "nokey"

handleFileUpload(file) ==
  /\ mounted /\ ~KeyRejectionQueued
  /\ lastOp' = Op("uploadFile", file, EmptyText, Null, "")
  /\ IF ~IsVideo(file)
     THEN /\ error' = InvalidFileMessage
          /\ UNCHANGED <<videoFile, videoUrl, jsonOutput, isLoading,
                         progressMessage, shotPrompts, activeTab,
                         selectedSceneId, liveUrls, calls, clientProgress>>
     ELSE /\ \E u \in Urls : u \notin liveUrls \cup {videoUrl}
          /\ InFlight < MaxCalls
          /\ videoFile' = file
          /\ videoUrl' = FreshUrl
          /\ liveUrls' = LiveAfter(FreshUrl, liveUrls \cup {FreshUrl})
          /\ error' = NoError
          /\ isLoading' = TRUE
          /\ jsonOutput' = EmptyText
          /\ shotPrompts' = PromptsAfter(EmptyText, shotPrompts)
          /\ activeTab' = TabAfter(EmptyText, activeTab)
          /\ progressMessage' = PreparingMessage
          /\ calls' = [calls EXCEPT ![FirstPhase] = @ + 1]
          /\ clientProgress' = << >>
          /\ UNCHANGED selectedSceneId
  /\ UNCHANGED <<mounted, apiKey, probe>>
  /\ SelectionAfter(selection)

\* The rest of handleFileUpload after the await, on success (lines 161-162)
\* and the finally block (lines 166-168). A component that is no longer
\* mounted ignores the setters.
Fulfilled(phase, result) ==
  /\ calls' = [calls EXCEPT ![phase] = @ - 1]
  /\ IF mounted
     THEN /\ jsonOutput' = result
          /\ shotPrompts' = PromptsAfter(result, shotPrompts)
          /\ activeTab' = TabAfter(result, activeTab)
          /\ isLoading' = FALSE
          /\ progressMessage' = ""
          /\ UNCHANGED <<videoFile, videoUrl, error, selectedSceneId, liveUrls>>
     ELSE UNCHANGED <<appState, liveUrls>>
  /\ UNCHANGED <<mounted, apiKey, clientProgress, probe>>
  /\ SelectionAfter(selection)

\* The catch block (lines 163-165) and the finally block (lines 166-168).
Rejected(phase, err) ==
  /\ calls' = [calls EXCEPT ![phase] = @ - 1]
  /\ IF mounted
     THEN /\ error' = CaughtMessage(err)
          /\ isLoading' = FALSE
          /\ progressMessage' = ""
          /\ UNCHANGED <<videoFile, videoUrl, jsonOutput, shotPrompts,
                         activeTab, selectedSceneId, liveUrls>>
     ELSE UNCHANGED <<appState, liveUrls>>
  /\ UNCHANGED <<mounted, apiKey, clientProgress, probe>>
  /\ SelectionAfter(selection)

\* analyzeVideoWithGemini throws for the missing API_KEY (lines 24-26).
KeyCheckFails ==
  /\ calls.nokey > 0
  /\ lastOp' = Op("analysisFails", NoFile, EmptyText, Null, ApiKeyMessage)
  /\ Rejected("nokey", ErrorOf(ApiKeyMessage))

\* fileToBase64 resolves; the client reports progress and sends the request
\* (lines 29-31, 96).
EncodingDone ==
  /\ calls.encoding > 0 /\ ~KeyRejectionQueued
  /\ calls' = [calls EXCEPT !.encoding = @ - 1, !.requesting = @ + 1]
  /\ lastOp' = Op("progress", NoFile, EmptyText, Null, UploadingMessage)
  /\ progressMessage' = IF mounted THEN UploadingMessage ELSE progressMessage
  /\ clientProgress' = Append(clientProgress, "beforeRequest")
  /\ UNCHANGED <<mounted, apiKey, videoFile, videoUrl, jsonOutput, isLoading,
                 error, shotPrompts, activeTab, selectedSceneId, liveUrls,
                 probe>>
  /\ SelectionAfter(selection)

\* fileToBase64 rejects (lines 12-16).
EncodingFails(err) ==
  /\ calls.encoding > 0 /\ ~KeyRejectionQueued
  /\ lastOp' = Op("analysisFails", NoFile, EmptyText, Null, err.message)
  /\ Rejected("encoding", err)

\* generateContent resolves with response.text = jsonText (lines 96-114).
RemoteResolves(jsonText) ==
  /\ calls.requesting > 0 /\ ~KeyRejectionQueued
  /\ lastOp' = Op("analysisSucceeds", NoFile, jsonText, Null, "")
  /\ Fulfilled("requesting", ClientResults[jsonText])

\* generateContent rejects.
RemoteRejects(err) ==
  /\ calls.requesting > 0 /\ ~KeyRejectionQueued
  /\ lastOp' = Op("analysisFails", NoFile, EmptyText, Null, err.message)
  /\ Rejected("requesting", err)

\* Mutant: reset does not return to the Prompts tab.
handleResetKeepsTab ==
  /\ mounted /\ ~KeyRejectionQueued
  /\ lastOp' = Op("reset", NoFile, EmptyText, Null, "")
  /\ videoFile' = NoFile
  /\ videoUrl' = NoUrl
  /\ liveUrls' = LiveAfter(NoUrl, IF videoUrl # NoUrl THEN liveUrls \ {videoUrl}
                                  ELSE liveUrls)
  /\ jsonOutput' = EmptyText
  /\ error' = NoError
  /\ isLoading' = FALSE
  /\ progressMessage' = ""
  /\ shotPrompts' = PromptsAfter(EmptyText, << >>)
  /\ activeTab' = TabAfter(EmptyText, activeTab)
  /\ selectedSceneId' = Null
  /\ UNCHANGED <<mounted, apiKey, calls, clientProgress, probe>>
  /\ SelectionAfter(selection)

handleReset ==
  /\ mounted /\ ~KeyRejectionQueued
  /\ lastOp' = Op("reset", NoFile, EmptyText, Null, "")
  /\ videoFile' = NoFile
  /\ videoUrl' = NoUrl
  /\ liveUrls' = LiveAfter(NoUrl, IF videoUrl # NoUrl THEN liveUrls \ {videoUrl}
                                  ELSE liveUrls)
  /\ jsonOutput' = EmptyText
  /\ error' = NoError
  /\ isLoading' = FALSE
  /\ progressMessage' = ""
  /\ shotPrompts' = PromptsAfter(EmptyText, << >>)
  /\ activeTab' = TabAfter(EmptyText, "prompts")
  /\ selectedSceneId' = Null
  /\ UNCHANGED <<mounted, apiKey, calls, clientProgress, probe>>
  /\ SelectionAfter(selection)

\* setJsonOutput with what it makes the effect do.
SetJsonOutput(newJson) ==
  /\ jsonOutput' = newJson
  /\ shotPrompts' = PromptsAfter(newJson, shotPrompts)
  /\ activeTab' = TabAfter(newJson, activeTab)
  /\ UNCHANGED <<mounted, apiKey, videoFile, videoUrl, isLoading, error,
                 progressMessage, selectedSceneId, liveUrls, calls,
                 clientProgress, probe>>
  /\ SelectionAfter(selection)

\* The textarea's onChange (line 404).
editJsonText(newText) ==
  /\ mounted /\ ~KeyRejectionQueued
  /\ lastOp' = Op("editJsonText", NoFile, newText, Null, "")
  /\ SetJsonOutput(newText)

handleFormatJson ==
  /\ mounted /\ ~KeyRejectionQueued
  /\ lastOp' = Op("formatJson", NoFile, jsonOutput, Null, "")
  /\ SetJsonOutput(Formatted[jsonOutput])

\* The tab buttons (lines 360, 370).
setActiveTab(tab) ==
  /\ mounted /\ ~KeyRejectionQueued
  /\ lastOp' = Op("setActiveTab", NoFile, EmptyText, Null, tab)
  /\ activeTab' = tab
  /\ UNCHANGED <<mounted, apiKey, videoFile, videoUrl, jsonOutput, isLoading,
                 error, progressMessage, shotPrompts, selectedSceneId,
                 liveUrls, calls, clientProgress, probe>>
  /\ SelectionAfter(selection)

\* Mutant: the handler switches to the Raw JSON tab whatever the search gives.
handleShotPromptClickAlwaysSwitches(scene) ==
  LET id == GetField(scene, "scene_id")
      span == IF TextareaMounted /\ jsonOutput # EmptyText
              THEN Located[jsonOutput][id] ELSE NoSpan
  IN
  /\ mounted /\ ~KeyRejectionQueued
  /\ lastOp' = Op("selectShot", NoFile, EmptyText, id, "")
  /\ selectedSceneId' = id
  /\ activeTab' = "json"
  /\ UNCHANGED <<mounted, apiKey, videoFile, videoUrl, jsonOutput, isLoading,
                 error, progressMessage, shotPrompts, liveUrls, calls,
                 clientProgress, probe>>
  /\ SelectionAfter(IF span.found THEN <<span.start, span.end>> ELSE selection)

handleShotPromptClick(scene) ==
  LET id == GetField(scene, "scene_id")
      span == IF TextareaMounted /\ jsonOutput # EmptyText
              THEN Located[jsonOutput][id] ELSE NoSpan
  IN
  /\ mounted /\ ~KeyRejectionQueued
  /\ lastOp' = Op("selectShot", NoFile, EmptyText, id, "")
  /\ selectedSceneId' = id
  /\ activeTab' = IF span.found THEN "json" ELSE activeTab
  /\ UNCHANGED <<mounted, apiKey, videoFile, videoUrl, jsonOutput, isLoading,
                 error, progressMessage, shotPrompts, liveUrls, calls,
                 clientProgress, probe>>
  /\ SelectionAfter(IF span.found THEN <<span.start, span.end>> ELSE selection)

\* The component unmounts: the effect cleanup revokes the current URL.
Unmount ==
  /\ mounted /\ ~KeyRejectionQueued
  /\ mounted' = FALSE
  /\ lastOp' = Op("unmount", NoFile, EmptyText, Null, "")
  /\ liveUrls' = IF videoUrl # NoUrl THEN liveUrls \ {videoUrl} ELSE liveUrls
  /\ selection' = NoSelection
  /\ UNCHANGED <<apiKey, appState, calls, clientProgress, probe>>

(***************************************************************************)
(* The program as its controls drive it: a handler runs when the control   *)
(* that calls it is rendered.                                              *)
(***************************************************************************)
\* handleFileChange (lines 95-99); the input is disabled while loading.
FileChange(file) == ShowsUploadArea /\ ~isLoading /\ handleFileUpload(file)

\* handleDrop (lines 83-93).
FileDrop(file) ==
  ShowsUploadArea /\ ~isLoading /\ IsVideo(file) /\ handleFileUpload(file)

ClickReset == (ShowsErrorPanel \/ ShowsResultPanel) /\ handleReset
ClickTab(tab) == ShowsResultPanel /\ setActiveTab(tab)
TypeJson(newText) == TextareaMounted /\ editJsonText(newText)
ClickFormat == TextareaMounted /\ handleFormatJson
ClickShot(i) == ShowsShotCards /\ handleShotPromptClick(shotPrompts[i].scene)

Completion ==
  \/ KeyCheckFails
  \/ EncodingDone
  \/ \E err \in EncodingFailures : EncodingFails(err)
  \/ \E jsonText \in RemoteTexts : RemoteResolves(jsonText)
  \/ \E err \in RemoteFailures : RemoteRejects(err)

Next ==
  \/ \E file \in Files : FileChange(file)
  \/ \E file \in Files : FileDrop(file)
  \/ ClickReset
  \/ \E tab \in {"prompts", "json"} : ClickTab(tab)
  \/ \E newText \in EditTexts : TypeJson(newText)
  \/ ClickFormat
  \/ \E i \in 1..Len(shotPrompts) : ClickShot(i)
  \/ Completion
  \/ Unmount

Spec == Init /\ [][Next]_vars

(***************************************************************************)
(* The session core: every operation can be called whenever the component  *)
(* is mounted, whatever is rendered.                                       *)
(***************************************************************************)
NextCore ==
  \/ \E file \in Files : handleFileUpload(file)
  \/ handleReset
  \/ \E tab \in {"prompts", "json"} : setActiveTab(tab)
  \/ \E newText \in EditTexts : editJsonText(newText)
  \/ handleFormatJson
  \/ \E scene \in CoreScenes : handleShotPromptClick(scene)
  \/ Completion
  \/ Unmount

SpecCore == Init /\ [][NextCore]_vars

(***************************************************************************)
(* The pure helpers called directly, on inputs drawn from bounded sets:    *)
(* formatTime, the prompt synthesis, the scene locator, and the export of  *)
(* a text followed by its synthesis. The session stays as mounted, and a   *)
(* behaviour makes one call.                                               *)
(***************************************************************************)
WithField(obj, key, val) == Obj(SetMember(obj.v, key, val))

\* A scene with times that are no whole seconds, two dialogue lines, and the
\* scene_id of SceneA2.
SceneC2 ==
  WithDialogue(
    WithField(WithField(Scene(2, 0, 0, "They talk", <<"table">>, <<"talk", "nod">>),
                        "timestamp_start_seconds", Frac(599, <<9>>)),
              "timestamp_end_seconds", Frac(605, <<5>>)),
    << DialogueLine("Person 1", "Hello"), DialogueLine("Person 2", "Hi") >>)
\* A scene whose dialogue is the empty array.
SceneD3 == WithDialogue(Scene(3, 10, 12, "Silence", <<"lamp">>, << >>), << >>)

PureScenes == {SceneA1, SceneA2, SceneB10, SceneC2, SceneD3}

Analyses ==
  {VideoAnalysis("Clip", "Sample", scenes) :
     scenes \in UNION {[1..n -> PureScenes] : n \in 0..MaxScenes}}

\* The ids asked of the locator: those of the scenes and one of no scene.
LocateIds == {GetField(scene, "scene_id") : scene \in PureScenes} \cup {Num(4)}

SecondsValues ==
  {Frac(whole, digits) : whole \in 0..MaxSeconds, digits \in {<< >>, <<5>>, <<9>>}}

Probe(fn, text, arg, out) == [fn |-> fn, text |-> text, arg |-> arg, out |-> out]

CallFormatTime(seconds) ==
  /\ probe = NoProbe
  /\ probe' = Probe("formatTime", EmptyText, seconds, formatTime(seconds))
  /\ UNCHANGED sessionVars

\* The body of the try block of the effect on an analysis.
CallSynthesize(analysis) ==
  /\ probe = NoProbe
  /\ probe' = Probe("synthesize", EmptyText, analysis, Synthesize(analysis))
  /\ UNCHANGED sessionVars

\* The locator on the text the client returns for the analysis.
CallLocate(analysis, id) ==
  LET text == Pretty(analysis) IN
  /\ probe = NoProbe
  /\ probe' = Probe("locate", text, [doc |-> analysis, id |-> id], Locate(text, id))
  /\ UNCHANGED sessionVars

\* handleFormatJson's text of a text, then the effect's synthesis of it.
CallExportThenSynthesize(text) ==
  /\ probe = NoProbe
  /\ probe' = Probe("export", text, Null, DerivePrompts(FormatResult(text)))
  /\ UNCHANGED sessionVars

NextPure ==
  \/ \E seconds \in SecondsValues : CallFormatTime(seconds)
  \/ \E analysis \in Analyses : CallSynthesize(analysis)
  \/ \E analysis \in Analyses, id \in LocateIds : CallLocate(analysis, id)
  \/ \E analysis \in Analyses, pretty \in BOOLEAN :
       CallExportThenSynthesize(IF pretty THEN Pretty(analysis) ELSE Compact(analysis))
  \/ CallExportThenSynthesize(Garbage)

SpecPure == Init /\ [][NextPure]_vars

(***************************************************************************)
(* Claims                                                                  *)
(***************************************************************************)

\* C1: in Ready, selecting a shot whose scene id the locator finds in the
\* current JSON text records the id, switches the active sub-view to RawJson,
\* marks the located span as the selection, and the session stays Ready.
C1_SelectShotSwitchesToRawJson ==
  [][(/\ Ready
      /\ lastOp'.op = "selectShot"
      /\ Locate(jsonOutput, lastOp'.id).found)
     => (/\ selectedSceneId' = lastOp'.id
         /\ activeTab' = "json"
         /\ selection' = <<Locate(jsonOutput, lastOp'.id).start,
                           Locate(jsonOutput, lastOp'.id).end>>
         /\ Ready')]_vars

\* C2: an uploadFile issued while the session is Analyzing is rejected by the
\* upload operation itself: it starts no remote call and changes no state.
C2_SecondUploadRejected ==
  [][(Analyzing /\ lastOp'.op = "uploadFile")
     => (appState' = appState /\ calls' = calls /\ liveUrls' = liveUrls)]_vars

\* C3: at most one object URL is live at any time, and it is the current
\* video's: none is left after reset, after replacement by a new upload, or
\* after the component unmounted.
C3_AtMostOneLiveHandle ==
  /\ Cardinality(liveUrls) <= 1
  /\ liveUrls = IF mounted /\ videoUrl # NoUrl THEN {videoUrl} ELSE {}

\* C3 witness: an upload replaced the video of a Ready session and one handle
\* is live.
C3_Witness ==
  /\ lastOp.op = "uploadFile"
  /\ lastOp.from = "Ready"
  /\ lastOp.file.type[1] = "video"
  /\ liveUrls = {videoUrl}

\* C4: for every newText, editJsonText(newText) in Ready leaves the session
\* Ready with no error and the prompt list equal to the synthesis of newText
\* (empty when newText does not parse).
C4_EditKeepsReady ==
  [][(Ready /\ lastOp'.op = "editJsonText")
     => (/\ Ready'
         /\ error' = NoError
         /\ jsonOutput' = lastOp'.text
         /\ shotPrompts' = DerivePrompts(lastOp'.text).prompts)]_vars

\* C5: once the session is in Error, no step other than reset leaves Error
\* (in particular no uploadFile is accepted).
C5_ErrorTerminalUntilReset ==
  [][(Error /\ mounted' /\ lastOp'.op # "reset") => Error']_vars

\* C6: an upload whose MIME type is no video type moves the session to Error
\* with the message, starts no remote call, acquires no URL and stores no
\* file; an upload of a video from Idle moves the session to Analyzing with
\* exactly one remote call started.
C6_UploadValidation ==
  [][/\ (lastOp'.op = "uploadFile" /\ lastOp'.file.type[1] # "video")
        => (/\ Error'
            /\ error' = InvalidFileMessage
            /\ calls' = calls
            /\ liveUrls' = liveUrls
            /\ videoUrl' = videoUrl
            /\ videoFile' = videoFile
            /\ videoFile' = NoFile)
     /\ (Idle /\ lastOp'.op = "uploadFile" /\ lastOp'.file.type[1] = "video")
        => (/\ Analyzing'
            /\ InFlight = 0
            /\ InFlight' = 1
            /\ videoFile' = lastOp'.file)]_vars

\* C6 witness: a text file was uploaded from Idle and the session shows the
\* error with no call in flight.
C6_Witness ==
  /\ lastOp.op = "uploadFile"
  /\ lastOp.file = TextFile
  /\ lastOp.from = "Idle"
  /\ Error
  /\ InFlight = 0

\* C7: when the analysis in flight succeeds with jsonText, the session
\* becomes Ready with the Prompts sub-view active, the client's text stored,
\* no error, and the prompt list synthesized from the text (empty when the
\* text does not parse as a VideoAnalysis).
C7_SuccessBecomesReady ==
  [][(Analyzing /\ lastOp'.op = "analysisSucceeds")
     => (/\ Ready'
         /\ activeTab' = "prompts"
         /\ error' = NoError
         /\ jsonOutput' = ClientResult(lastOp'.text)
         /\ shotPrompts' = DerivePrompts(jsonOutput').prompts)]_vars

\* C8: when the analysis in flight fails with an Error carrying message m,
\* the session becomes Error showing exactly m, with the JSON text and the
\* prompt list empty and no remote call started again.
C8_FailureShowsMessage ==
  [][(Analyzing /\ lastOp'.op = "analysisFails" /\ lastOp'.msg # "")
     => (/\ Error'
         /\ error' = lastOp'.msg
         /\ jsonOutput' = EmptyText
         /\ shotPrompts' = << >>
         /\ InFlight' = 0)]_vars

\* C8 witness: the remote call was rejected with "rate limited" and the
\* session shows that message.
C8_Witness ==
  /\ lastOp.op = "analysisFails"
  /\ lastOp.from = "Analyzing"
  /\ lastOp.msg = "rate limited"
  /\ Error
  /\ error = "rate limited"

\* C9: reset from Ready or from Error returns the session to Idle: no file,
\* no live URL, empty JSON text, empty prompt list, no error, no selected
\* scene, the Prompts sub-view active, not loading.
C9_ResetReturnsToIdle ==
  (lastOp.op = "reset" /\ lastOp.from \in {"Ready", "Error"})
  => (/\ Idle
      /\ videoFile = NoFile
      /\ videoUrl = NoUrl
      /\ liveUrls = {}
      /\ jsonOutput = EmptyText
      /\ shotPrompts = << >>
      /\ error = NoError
      /\ selectedSceneId = Null
      /\ activeTab = "prompts"
      /\ ~isLoading)

\* C9 witness: reset was clicked in a Ready session.
C9_Witness == lastOp.op = "reset" /\ lastOp.from = "Ready" /\ Idle

\* C10: in every state the prompt list is the synthesis of the current JSON
\* text, and is empty when the text is empty or does not parse.
C10_PromptsAreProjection ==
  /\ shotPrompts = Derived[jsonOutput].prompts
  /\ (jsonOutput = EmptyText \/ ~Parses[jsonOutput]) => shotPrompts = << >>

\* C10 witness: the text was edited into one that does not parse and the
\* prompt list of the Ready session was cleared.
C10_Witness ==
  /\ lastOp.op = "editJsonText"
  /\ lastOp.from = "Ready"
  /\ jsonOutput = Garbage
  /\ shotPrompts = << >>

\* C11: on pretty-printed analysis JSON, locate(text, id) returns nothing for
\* an id that is the scene_id of no scene (also when the id is a decimal
\* prefix of a present scene_id), and otherwise a span whose slice of the text
\* contains "scene_id": <id>.
C11_LocateFindsExactlyPresentIds ==
  (probe.fn = "locate" /\ probe.text = Pretty(probe.arg.doc)) =>
    LET text == probe.text
        scenes == GetField(probe.arg.doc, "scenes").v
        present == \E i \in 1..Len(scenes) :
                     GetField(scenes[i], "scene_id") = probe.arg.id
        pat == SceneIdentifier(probe.arg.id)
        inSlice == \E i \in 1..Len(text) :
                     /\ MatchesAt(text, pat, i)
                     /\ probe.out.start <= CharOffset(text, i)
                     /\ CharOffset(text, i + Len(pat)) <= probe.out.end
    IN IF present THEN probe.out.found /\ inSlice ELSE ~probe.out.found

\* C12: on pretty-printed analysis JSON with a scene whose scene_id is id,
\* locate(text, id) returns the span that starts where the declaration
\* "scene_id": <id> of the first scene with exactly that id starts (not at an
\* earlier scene whose id only begins with the same digits) and ends at the
\* next newline, or at the end of the text if there is none.
C12_LocateReturnsOwnDeclaration ==
  (/\ probe.fn = "locate"
   /\ probe.text = Pretty(probe.arg.doc)
   /\ \E i \in 1..Len(GetField(probe.arg.doc, "scenes").v) :
        GetField(GetField(probe.arg.doc, "scenes").v[i], "scene_id") = probe.arg.id) =>
    LET text == probe.text
        pat == SceneIdentifier(probe.arg.id)
        after(i) == i + Len(pat)
        exact(i) == /\ MatchesAt(text, pat, i)
                    /\ ~(/\ after(i) <= Len(text)
                         /\ (text[after(i)].k = "digit" \/ text[after(i)] = P(".")))
        first == CHOOSE i \in 1..Len(text) :
                   exact(i) /\ \A j \in 1..(i - 1) : ~exact(j)
        newlines == {j \in first..Len(text) : text[j] = NL}
        lineEnd == IF newlines = {} THEN CharLen(text)
                   ELSE CharOffset(text, CHOOSE j \in newlines :
                                           \A k \in newlines : j <= k)
    IN /\ probe.out.found
       /\ probe.out.start = CharOffset(text, first)
       /\ probe.out.end = lineEnd

\* C13: for a VideoAnalysis with N scenes, synthesize gives exactly N
\* ShotPrompts in the order of the scenes, the i-th with the i-th scene's
\* scene_id as its id and with that scene, also when scene_id values repeat.
C13_OnePromptPerSceneInOrder ==
  probe.fn = "synthesize" =>
    LET scenes == GetField(probe.arg, "scenes").v IN
    /\ probe.out.ok
    /\ Len(probe.out.prompts) = Len(scenes)
    /\ \A i \in 1..Len(scenes) :
         /\ probe.out.prompts[i].id = GetField(scenes[i], "scene_id")
         /\ probe.out.prompts[i].scene = scenes[i]

\* Three scenes, two of them with the same scene_id, in an order that is not
\* the order of the ids.
C13_Witness ==
  /\ probe.fn = "synthesize"
  /\ Len(probe.out.prompts) = MaxScenes
  /\ probe.out.prompts[1].id = Num(10)
  /\ probe.out.prompts[2].id = Num(2)
  /\ probe.out.prompts[3].id = Num(2)
  /\ probe.out.prompts[2].scene # probe.out.prompts[3].scene

\* C14: without an API credential the client raises its error before any
\* progress callback and before any network activity; the session then ends
\* in Error with that message (not loading any more), and reset takes it from
\* there to Idle.
C14_MissingKeyFailsFirst ==
  /\ [](~apiKey => /\ clientProgress = << >>
                   /\ calls.encoding = 0 /\ calls.requesting = 0
                   /\ progressMessage # UploadingMessage)
  /\ [][/\ (/\ Analyzing /\ ~apiKey
            /\ lastOp'.op = "analysisFails") =>
             /\ lastOp'.msg = ApiKeyMessage
             /\ Error' /\ error' = ApiKeyMessage /\ ~isLoading'
             /\ InFlight' = 0
        /\ (Error /\ error = ApiKeyMessage /\ lastOp'.op = "reset") => Idle'
       ]_vars

C14_Witness ==
  /\ ~apiKey
  /\ lastOp.op = "analysisFails" /\ lastOp.from = "Analyzing"
  /\ Error /\ error = ApiKeyMessage
  /\ clientProgress = << >>

\* C15: a call of the client that reaches the remote request has, by the time
\* the request resolves or rejects, called the progress callback at least
\* twice: at least once before the request was sent and, after that, at
\* least once while the response was awaited.
C15_TwoProgressMilestones ==
  [][(calls'.requesting < calls.requesting) =>
       \E i, j \in 1..Len(clientProgress) :
         /\ i < j
         /\ clientProgress[i] = "beforeRequest"
         /\ clientProgress[j] = "awaiting"]_vars

\* C16: for every analysis text that parses, the prompt list synthesized
\* from the text re-serialized as pretty-printed JSON (Format JSON, export)
\* is identical to the list synthesized from the text itself.
C16_SynthesisSurvivesExport ==
  (probe.fn = "export" /\ JsonParse(probe.text).ok) =>
    probe.out = DerivePrompts(probe.text)

\* A minified text, which the export rewrites, with a full list of prompts.
C16_Witness ==
  /\ probe.fn = "export"
  /\ FormatResult(probe.text) # probe.text
  /\ probe.out.ok
  /\ Len(probe.out.prompts) = MaxScenes

\* C17: for every non-negative seconds value, format(seconds) is
\* floor(seconds/60), then ":", then floor(seconds) mod 60 written with
\* exactly two digits, so the seconds field is in 00..59; format(0) = "0:00",
\* format(65) = "1:05", format(599.9) = "9:59"; and the timestamp of each
\* synthesized prompt is format(start), " - ", format(end).
C17_FormatTime ==
  LET whole(num) == num.v    \* the integer part of a non-negative decimal
      two(n) == IF n < 10 THEN "0" \o ToString(n) ELSE ToString(n)
      format(num) == ToString(whole(num) \div 60) \o ":" \o two(whole(num) % 60)
  IN
  /\ probe.fn = "formatTime" =>
       /\ probe.out = format(probe.arg)
       /\ whole(probe.arg) % 60 \in 0..59
       /\ probe.arg = Num(0) => probe.out = "0:00"
       /\ probe.arg = Num(65) => probe.out = "1:05"
       /\ probe.arg = Frac(599, <<9>>) => probe.out = "9:59"
  /\ probe.fn = "synthesize" =>
       \A i \in 1..Len(probe.out.prompts) :
         probe.out.prompts[i].timestamp =
           format(GetField(probe.out.prompts[i].scene, "timestamp_start_seconds"))
           \o " - "
           \o format(GetField(probe.out.prompts[i].scene, "timestamp_end_seconds"))

\* format(599.9): the floor is taken, and the seconds need no padding.
C17_Witness ==
  /\ probe.fn = "formatTime"
  /\ probe.arg = Frac(599, <<9>>)
  /\ probe.out = "9:59"

\* C18: the prompt text of a scene is the description part, then the
\* dialogue part (present exactly when the scene has a non-empty dialogue,
\* its entries joined by one space), then the objects part, then the actions
\* part; a scene with empty objects and actions gives a prompt that ends in
\* "Prominent objects: . Actions: ." and synthesis does not fail.
C18_PromptTextLayout ==
  probe.fn = "synthesize" =>
    /\ probe.out.ok
    /\ \A i \in 1..Len(probe.out.prompts) :
         LET scene == probe.out.prompts[i].scene
             text == probe.out.prompts[i].prompt
         IN
         /\ scene = SceneA1 =>
              text = "Cinematic shot: A cat sits. Dialogue: Person 1: \"Hello\"."
                     \o " Prominent objects: cat, sofa. Actions: sit."
         /\ scene = SceneA2 =>
              text = "Cinematic shot: It leaves. Prominent objects: . Actions: ."
         /\ scene = SceneB10 =>
              text = "Cinematic shot: A dog runs. Prominent objects: dog."
                     \o " Actions: run, bark."
         /\ scene = SceneC2 =>
              text = "Cinematic shot: They talk."
                     \o " Dialogue: Person 1: \"Hello\" Person 2: \"Hi\"."
                     \o " Prominent objects: table. Actions: talk, nod."
         /\ scene = SceneD3 =>
              text = "Cinematic shot: Silence. Prominent objects: lamp. Actions: ."

\* One analysis with a scene of empty objects and actions, a scene with two
\* dialogue lines and a scene whose dialogue is the empty array.
C18_Witness ==
  /\ probe.fn = "synthesize"
  /\ probe.out.ok
  /\ Len(probe.out.prompts) = MaxScenes
  /\ probe.out.prompts[1].scene = SceneA2
  /\ probe.out.prompts[2].scene = SceneC2
  /\ probe.out.prompts[MaxScenes].scene = SceneD3

\* C19: in Ready, selecting a shot whose scene id the locator does not find
\* in the current JSON text (the id is absent, or the text is minified)
\* records the id as selected, leaves the active sub-view, the JSON text and
\* the selection as they were, raises no error and stays in Ready.
C19_UnlocatedShotOnlySelects ==
  [][(/\ Ready
      /\ lastOp'.op = "selectShot"
      /\ ~Located[jsonOutput][lastOp'.id].found) =>
       /\ selectedSceneId' = lastOp'.id
       /\ activeTab' = activeTab
       /\ jsonOutput' = jsonOutput
       /\ shotPrompts' = shotPrompts
       /\ selection' = selection
       /\ error' = NoError
       /\ Ready']_vars

\* The textarea is rendered with the minified text of an analysis that has
\* the scene, so the search runs and finds nothing.
C19_Witness ==
  /\ lastOp.op = "selectShot" /\ lastOp.from = "Ready"
  /\ Ready
  /\ TextareaMounted
  /\ jsonOutput = Compact(AnalysisA)
  /\ lastOp.id = GetField(SceneA2, "scene_id")
  /\ ~Located[jsonOutput][lastOp.id].found
  /\ selectedSceneId = lastOp.id

\* C20: reset while an analysis is in flight takes the session to Idle, and
\* the session stays Idle when that call later resolves or rejects: the late
\* completion stores no JSON text, sets no error and gives no prompt list.
C20_ResetDropsLateCompletion ==
  [][/\ (Analyzing /\ lastOp'.op = "reset") => Idle'
     /\ (/\ Idle /\ InFlight > 0
         /\ lastOp'.op \in {"progress", "analysisSucceeds", "analysisFails"}) =>
          /\ Idle'
          /\ jsonOutput' = EmptyText
          /\ error' = NoError
          /\ shotPrompts' = << >>]_vars

\* C21: in every reachable state with a file loaded and no analysis in
\* flight, the session is Ready or Error and a reset control is rendered; no
\* state has a file, no loading, no error and no result with neither upload
\* nor reset possible.
C21_LoadedFileCanBeReset ==
  (mounted /\ videoFile # NoFile /\ ~isLoading /\ InFlight = 0) =>
    /\ Ready \/ Error
    /\ ShowsErrorPanel \/ ShowsResultPanel
    /\ ~(/\ error = NoError /\ jsonOutput = EmptyText
         /\ ~ShowsUploadArea /\ ~ShowsErrorPanel /\ ~ShowsResultPanel)

\* C22: editJsonText and Format JSON change only the JSON text and the
\* prompt list derived from it: the active sub-view, the selected scene id,
\* the loaded file, the video handle and the error message stay as they were.
C22_EditFrame ==
  [][(lastOp'.op \in {"editJsonText", "formatJson"}) =>
       /\ activeTab' = activeTab
       /\ selectedSceneId' = selectedSceneId
       /\ videoFile' = videoFile
       /\ videoUrl' = videoUrl
       /\ liveUrls' = liveUrls
       /\ error' = error]_vars

\* C23: when the call of an Analyzing episode resolves or rejects (or the
\* client raises before the request), the loading flag is cleared and the
\* progress message emptied, and the session is then Ready or Error, not
\* Analyzing; the progress message is non-empty only while Analyzing.
C23_AnalyzingEnds ==
  /\ [](mounted /\ progressMessage # "" => Analyzing)
  /\ [][(/\ Analyzing /\ mounted'
         /\ lastOp'.op \in {"analysisSucceeds", "analysisFails"}) =>
          /\ ~isLoading'
          /\ progressMessage' = ""
          /\ ~Analyzing'
          /\ Ready' \/ Error']_vars
====
